---------------------------- MODULE Spec2Model ----------------------------
(***************************************************************************)
(* The media transcript pipeline of nexus-reader: YtdlpService             *)
(* (main/services/ytdlp-service.ts), its subprocess runner, the cache      *)
(* directory it shares between calls, and the calls the IPC handlers make  *)
(* on it concurrently.                                                     *)
(*                                                                         *)
(* Strings are sequences of tokens.  A token is one character, or one of   *)
(* the fixed substrings the code searches for (" (auto)", "-->", "Kind:",  *)
(* ...), which no other token overlaps.  Paths are relative to cacheDir.   *)
(***************************************************************************)
EXTENDS Integers, Sequences, FiniteSets, TLC

\* ------------------------------------------------------------ bounds
\* Calls issued on the service in one run of the model.
MaxCalls == 2
\* Caption groups per set (manual, automatic) of a metadata payload.
MaxGroups == 2
\* 'data' events per output stream of one subprocess.
MaxData == 2
\* Cue blocks of a VTT payload.
MaxBlocks == 2
\* Events of a json3 payload.
MaxEvents == 2
\* Tokens of a single payload line.
MaxLineLen == 3

\* ------------------------------------------------------------ strings

AUTO == " (auto)"

\* s.indexOf(tok): the first position of tok in s, 0 when absent.
IndexOf(s, tok) ==
  IF \E i \in 1..Len(s) : s[i] = tok
  THEN CHOOSE i \in 1..Len(s) : s[i] = tok /\ \A j \in 1..(i - 1) : s[j] # tok
  ELSE 0

\* s without its element at position i.
RemoveAt(s, i) == SubSeq(s, 1, i - 1) \o SubSeq(s, i + 1, Len(s))

\* String.prototype.replace(pattern, '') with a string pattern: only the first
\* occurrence is removed, wherever it stands.
ReplaceFirst(s, tok) ==
  IF IndexOf(s, tok) = 0 THEN s ELSE RemoveAt(s, IndexOf(s, tok))

\* lang.replace(' (auto)', '')
cleanLang(lang) == ReplaceFirst(lang, AUTO)

\* ------------------------------------------------------------ paths

\* A rival of cacheFile that names the cache entry by the normalized language.
cacheFileClean(videoId, lang) == videoId \o <<"_">> \o cleanLang(lang) \o <<".txt">>

\* path.join(this.cacheDir, `${videoId}_${lang}.txt`)
cacheFile(videoId, lang) == videoId \o <<"_">> \o lang \o <<".txt">>

\* A rival of outputTemplate where the VTT fallback downloads into the plain
\* template.
outputTemplatePlain(videoId, lang, kind) ==
  videoId \o <<"_">> \o lang \o
    (CASE kind = "sub" -> <<>>
       [] kind = "ts"  -> <<"_", "ts">>
       [] kind = "vtt" -> <<>>)

\* The three output templates: `${videoId}_${lang}`, ..._ts, ..._vtt.
outputTemplate(videoId, lang, kind) ==
  videoId \o <<"_">> \o lang \o
    (CASE kind = "sub" -> <<>>
       [] kind = "ts"  -> <<"_", "ts">>
       [] kind = "vtt" -> <<"_", "vtt">>)

\* The subtitle format each template is downloaded in.
subFormat(kind) == IF kind = "ts" THEN "json3" ELSE "vtt"

\* possibleFiles: the plain candidate, then the auto-suffixed one.
possibleFiles(videoId, lang, kind) ==
  << outputTemplate(videoId, lang, kind) \o <<".">> \o cleanLang(lang)
       \o <<".", subFormat(kind)>>,
     outputTemplate(videoId, lang, kind) \o <<".">> \o cleanLang(lang)
       \o <<".", "auto", ".", subFormat(kind)>> >>

\* The argument list handed to execYtdlp for a subtitle download.
subtitleArgs(videoId, lang, kind) ==
  [ mode    |-> "write-sub",
    subLang |-> cleanLang(lang),
    format  |-> subFormat(kind),
    output  |-> outputTemplate(videoId, lang, kind),
    url     |-> videoId ]

\* The argument list of getVideoInfo's metadata dump.
dumpArgs(videoId) ==
  [ mode |-> "dump-json", subLang |-> <<>>, format |-> "json",
    output |-> <<>>, url |-> videoId ]


\* ------------------------------------------------------------ the VTT text parser
\* A payload is the sequence of its lines (vtt.split('\n')); a line is a string.

Whitespace == {" "}
Digits == {"0", "1", "2"}

RECURSIVE trimStart(_)
trimStart(s) ==
  IF s # <<>> /\ Head(s) \in Whitespace THEN trimStart(Tail(s)) ELSE s

RECURSIVE trimEnd(_)
trimEnd(s) ==
  IF s # <<>> /\ s[Len(s)] \in Whitespace
  THEN trimEnd(SubSeq(s, 1, Len(s) - 1)) ELSE s

\* String.prototype.trim
trim(s) == trimEnd(trimStart(s))

\* s.includes(tok)
includes(s, tok) == IndexOf(s, tok) # 0

\* /^\d+$/.test(s)
isNumeric(s) == s # <<>> /\ \A i \in 1..Len(s) : s[i] \in Digits

\* s.startsWith(tok)
startsWith(s, tok) == s # <<>> /\ s[1] = tok

\* s.replace(/<[^>]+>/g, ''): from each "<", left to right, the text up to the
\* next ">" is removed when at least one character stands between them.
RECURSIVE stripTags(_)
stripTags(s) ==
  IF s = <<>> THEN <<>>
  ELSE IF Head(s) = "<" /\ IndexOf(Tail(s), ">") > 1
       THEN stripTags(SubSeq(Tail(s), IndexOf(Tail(s), ">") + 1, Len(s) - 1))
       ELSE <<Head(s)>> \o stripTags(Tail(s))

\* s.replace(/&name/g, to): an entity is "&" followed by its name token.
RECURSIVE replaceEntity(_, _, _)
replaceEntity(s, name, to) ==
  IF s = <<>> THEN <<>>
  ELSE IF Len(s) >= 2 /\ s[1] = "&" /\ s[2] = name
       THEN <<to>> \o replaceEntity(SubSeq(s, 3, Len(s)), name, to)
       ELSE <<Head(s)>> \o replaceEntity(Tail(s), name, to)

\* The skip test of parseVttToText: header, blank, time range, index, metadata.
skippedInText(trimmed) ==
  \/ trimmed = <<"WEBVTT">>
  \/ trimmed = <<>>
  \/ includes(trimmed, "-->")
  \/ isNumeric(trimmed)
  \/ startsWith(trimmed, "Kind:")
  \/ startsWith(trimmed, "Language:")

\* The cleaning chain of parseVttToText, in the code's order.
cleanText(trimmed) ==
  trim(replaceEntity(replaceEntity(replaceEntity(replaceEntity(
         stripTags(trimmed), "nbsp;", " "), "amp;", "&"), "lt;", "<"), "gt;", ">"))

\* A rival of textLoop that drops a line seen anywhere before, not only one
\* equal to the line accepted last.
RECURSIVE textLoopSeen(_, _, _)
textLoopSeen(lines, i, textLines) ==
  IF i > Len(lines) THEN textLines
  ELSE LET trimmed == trim(lines[i])
       IN IF skippedInText(trimmed) THEN textLoopSeen(lines, i + 1, textLines)
          ELSE IF /\ cleanText(trimmed) # <<>>
                  /\ ~\E k \in 1..Len(textLines) : textLines[k] = cleanText(trimmed)
               THEN textLoopSeen(lines, i + 1, Append(textLines, cleanText(trimmed)))
               ELSE textLoopSeen(lines, i + 1, textLines)

\* The loop of parseVttToText from line i on; textLines is what was accepted so
\* far (lastText is its last element, '' when there is none).
RECURSIVE textLoop(_, _, _)
textLoop(lines, i, textLines) ==
  IF i > Len(lines) THEN textLines
  ELSE LET trimmed  == trim(lines[i])
           lastText == IF textLines = <<>> THEN <<>> ELSE textLines[Len(textLines)]
       IN IF skippedInText(trimmed) THEN textLoop(lines, i + 1, textLines)
          ELSE IF cleanText(trimmed) # <<>> /\ cleanText(trimmed) # lastText
               THEN textLoop(lines, i + 1, Append(textLines, cleanText(trimmed)))
               ELSE textLoop(lines, i + 1, textLines)

\* parseVttToText: the accepted lines (textLines.join('\n'), kept as the
\* sequence of its lines).
parseVttToText(vtt) == textLoop(vtt, 1, <<>>)


\* ------------------------------------------------------------ the VTT entries parser
\* A time stamp HH:MM:SS.mmm is one token; stampMs is what the code computes
\* from its four groups, in milliseconds (the code's seconds times 1000).
Stamps == {"00:00:01.000", "00:00:02.500", "00:00:04.000"}

stampMs(tok) ==
  CASE tok = "00:00:01.000" -> 0 * 3600000 + 0 * 60000 + 1 * 1000 + 0
    [] tok = "00:00:02.500" -> 0 * 3600000 + 0 * 60000 + 2 * 1000 + 500
    [] tok = "00:00:04.000" -> 0 * 3600000 + 0 * 60000 + 4 * 1000 + 0

\* The position after the whitespace that starts at position i of s.
RECURSIVE skipSpaces(_, _)
skipSpaces(s, i) ==
  IF i <= Len(s) /\ s[i] \in Whitespace THEN skipSpaces(s, i + 1) ELSE i

\* Whether the time-range pattern stamp \s* --> \s* stamp matches s at position i.
rangeAt(s, i) ==
  /\ i <= Len(s) /\ s[i] \in Stamps
  /\ LET a == skipSpaces(s, i + 1)
     IN /\ a <= Len(s) /\ s[a] = "-->"
        /\ LET b == skipSpaces(s, a + 1)
           IN b <= Len(s) /\ s[b] \in Stamps

\* trimmed.match(...): the leftmost match as <<start, end>> stamps, <<>> for null.
timestampMatch(s) ==
  IF \E i \in 1..Len(s) : rangeAt(s, i)
  THEN LET i == CHOOSE k \in 1..Len(s) :
                  rangeAt(s, k) /\ \A j \in 1..(k - 1) : ~rangeAt(s, j)
           a == skipSpaces(s, i + 1)
           b == skipSpaces(s, a + 1)
       IN <<s[i], s[b]>>
  ELSE <<>>

\* The skip test of parseVttToEntries for a line that is no time range.
skippedInEntries(trimmed) ==
  \/ trimmed = <<"WEBVTT">>
  \/ trimmed = <<>>
  \/ isNumeric(trimmed)
  \/ startsWith(trimmed, "Kind:")
  \/ startsWith(trimmed, "Language:")

\* A rival of joinSpace that puts nothing between the lines.
RECURSIVE joinTight(_)
joinTight(ls) ==
  IF ls = <<>> THEN <<>> ELSE ls[1] \o joinTight(Tail(ls))

\* currentText.join(' ')
RECURSIVE joinSpace(_)
joinSpace(ls) ==
  IF ls = <<>> THEN <<>>
  ELSE IF Len(ls) = 1 THEN ls[1]
  ELSE ls[1] \o <<" ">> \o joinSpace(Tail(ls))

\* A rival of blockEntry with the two times exchanged.
blockEntrySwapped(currentStart, currentEnd, currentText) ==
  [ start |-> currentEnd, end |-> currentStart,
    text  |-> trim(stripTags(joinSpace(currentText))) ]

\* The entry pushed for the block collected so far.
blockEntry(currentStart, currentEnd, currentText) ==
  [ start |-> currentStart, end |-> currentEnd,
    text  |-> trim(stripTags(joinSpace(currentText))) ]

\* The loop of parseVttToEntries from line i on.
RECURSIVE entriesLoop(_, _, _, _, _, _)
entriesLoop(lines, i, entries, currentStart, currentEnd, currentText) ==
  IF i > Len(lines)
  THEN IF currentText # <<>>
       THEN Append(entries, blockEntry(currentStart, currentEnd, currentText))
       ELSE entries
  ELSE LET trimmed == trim(lines[i])
           m       == timestampMatch(trimmed)
       IN IF m # <<>>
          THEN entriesLoop(lines, i + 1,
                 IF currentText # <<>>
                 THEN Append(entries, blockEntry(currentStart, currentEnd, currentText))
                 ELSE entries,
                 stampMs(m[1]), stampMs(m[2]), <<>>)
          ELSE IF skippedInEntries(trimmed)
               THEN entriesLoop(lines, i + 1, entries, currentStart, currentEnd,
                                currentText)
               ELSE entriesLoop(lines, i + 1, entries, currentStart, currentEnd,
                                Append(currentText, trimmed))

\* parseVttToEntries
parseVttToEntries(vtt) == entriesLoop(vtt, 1, <<>>, 0, 0, <<>>)

\* ------------------------------------------------------------ the json3 parser
\* A json3 file is [valid, hasEvents, events]: valid says whether JSON.parse
\* accepts it.  An event is [hasSegs, segs, tStartMs, dDurationMs], a segment
\* the string of its utf8 field (<<>> when the field is absent or empty), and
\* an absent tStartMs or dDurationMs is 0, as `|| 0` makes it.

RECURSIVE joinEmpty(_)
joinEmpty(segs) ==
  IF segs = <<>> THEN <<>> ELSE Head(segs) \o joinEmpty(Tail(segs))

\* A rival of eventText that does not trim.
eventTextRaw(event) == joinEmpty(event.segs)

\* event.segs.map(s => s.utf8 || '').join('').trim()
eventText(event) == trim(joinEmpty(event.segs))

\* A rival of eventsLoop that drops an event whose text repeats the last entry's.
RECURSIVE eventsLoopDedup(_, _, _)
eventsLoopDedup(events, i, entries) ==
  IF i > Len(events) THEN entries
  ELSE IF /\ events[i].hasSegs /\ eventText(events[i]) # <<>>
          /\ (entries = <<>> \/ entries[Len(entries)].text # eventText(events[i]))
       THEN eventsLoopDedup(events, i + 1,
              Append(entries,
                [ start |-> events[i].tStartMs,
                  end   |-> events[i].tStartMs + events[i].dDurationMs,
                  text  |-> eventText(events[i]) ]))
       ELSE eventsLoopDedup(events, i + 1, entries)

\* The loop over data.events of getSubtitleWithTimestamps; times in milliseconds.
RECURSIVE eventsLoop(_, _, _)
eventsLoop(events, i, entries) ==
  IF i > Len(events) THEN entries
  ELSE IF events[i].hasSegs /\ eventText(events[i]) # <<>>
       THEN eventsLoop(events, i + 1,
              Append(entries,
                [ start |-> events[i].tStartMs,
                  end   |-> events[i].tStartMs + events[i].dDurationMs,
                  text  |-> eventText(events[i]) ]))
       ELSE eventsLoop(events, i + 1, entries)

\* The entries built from a parsed json3 file.
parseJson3(data) ==
  IF data.hasEvents THEN eventsLoop(data.events, 1, <<>>) ELSE <<>>


\* ------------------------------------------------------------ track discovery
\* The metadata dump is [valid, id, title, subtitles, automatic_captions]:
\* valid says whether JSON.parse accepts the output.  A caption set is the
\* sequence of its entries [lang, tracks] in key order (an absent set is the
\* empty one: both loops then add nothing); a track is [ext, url, name], with
\* name <<>> when the field is absent.

\* The fallback display-name suffix of an automatic track (the code's text is
\* Chinese for "automatically generated").
AUTONAME == " (auto-generated)"

\* trackList.find(t => t.ext === 'vtt') || trackList[0], as a sequence of at
\* most one track (<<>> for undefined).
vttTrack(trackList) ==
  IF \E i \in 1..Len(trackList) : trackList[i].ext = "vtt"
  THEN << trackList[CHOOSE i \in 1..Len(trackList) :
                      /\ trackList[i].ext = "vtt"
                      /\ \A j \in 1..(i - 1) : trackList[j].ext # "vtt"] >>
  ELSE IF trackList # <<>> THEN <<trackList[1]>> ELSE <<>>

\* The loop over info.subtitles.
RECURSIVE manualLoop(_, _, _)
manualLoop(groups, i, subtitles) ==
  IF i > Len(groups) THEN subtitles
  ELSE LET lang == groups[i].lang
           vt   == vttTrack(groups[i].tracks)
       IN IF vt # <<>>
          THEN manualLoop(groups, i + 1,
                 Append(subtitles,
                   [ lang |-> lang,
                     name |-> IF vt[1].name # <<>> THEN vt[1].name ELSE lang,
                     url  |-> vt[1].url ]))
          ELSE manualLoop(groups, i + 1, subtitles)

\* The loop over info.automatic_captions.
RECURSIVE autoLoop(_, _, _)
autoLoop(groups, i, subtitles) ==
  IF i > Len(groups) THEN subtitles
  ELSE LET lang == groups[i].lang
           vt   == vttTrack(groups[i].tracks)
       IN IF (~\E k \in 1..Len(subtitles) : subtitles[k].lang = lang) /\ vt # <<>>
          THEN autoLoop(groups, i + 1,
                 Append(subtitles,
                   [ lang |-> lang \o <<AUTO>>,
                     name |-> IF vt[1].name # <<>> THEN vt[1].name
                              ELSE lang \o <<AUTONAME>>,
                     url  |-> vt[1].url ]))
          ELSE autoLoop(groups, i + 1, subtitles)

\* The subtitles list getVideoInfo returns for a parsed dump.
subtitleTracks(info) ==
  autoLoop(info.automatic_captions, 1, manualLoop(info.subtitles, 1, <<>>))

\* The VideoInfo getVideoInfo returns for a parsed dump.
videoInfo(info) ==
  [ id |-> info.id, title |-> info.title, subtitles |-> subtitleTracks(info) ]


\* ------------------------------------------------------------ inputs
\* The (videoId, lang) pairs the callers pass: ids and codes with and without
\* an underscore, and a code carrying the qualifier getVideoInfo adds.
KeyU == << <<"a", "_", "b">>, <<"c">> >>
KeyV == << <<"a">>, <<"b", "_", "c">> >>
KeyQ == << <<"a", "_", "b">>, <<"c", AUTO>> >>
\* The pairs asked for in one run of the application.
KeySets == { {KeyU, KeyV}, {KeyU, KeyQ} }
VideoIds == { <<"a">> }

\* What yt-dlp may leave in a .vtt file: the manual track's cues in the plain
\* file, the automatic track's in the auto-suffixed one.
VttA ==
  << <<"WEBVTT">>, <<>>,
     <<"00:00:01.000", " ", "-->", " ", "00:00:02.500">>, <<"h", "i">>, <<>>,
     <<"00:00:02.500", " ", "-->", " ", "00:00:04.000">>, <<"h", "i">> >>
VttB ==
  << <<"WEBVTT">>, <<"Kind:", " ", "c">>,
     <<"00:00:01.000", " ", "-->", " ", "00:00:04.000">>,
     <<"<", "c", ">", "y", "o", "<", "/", "c", ">">> >>
VttPayloads == <<VttA, VttB>>

\* What yt-dlp may leave in a .json3 file: events, or text JSON.parse rejects.
Json3Bad == [valid |-> FALSE, hasEvents |-> FALSE, events |-> <<>>]
Json3A ==
  [ valid |-> TRUE, hasEvents |-> TRUE,
    events |-> << [hasSegs |-> TRUE, segs |-> << <<"h">>, <<"i", " ">> >>,
                   tStartMs |-> 1000, dDurationMs |-> 1500],
                  [hasSegs |-> FALSE, segs |-> <<>>,
                   tStartMs |-> 2500, dDurationMs |-> 0] >> ]
Json3Payloads == <<Json3A, Json3Bad>>

\* What yt-dlp may print for --dump-json.
DumpBad ==
  [ valid |-> FALSE, id |-> <<>>, title |-> <<>>, subtitles |-> <<>>,
    automatic_captions |-> <<>> ]
DumpA ==
  [ valid |-> TRUE, id |-> <<"a">>, title |-> <<"t">>,
    subtitles |-> << [lang |-> <<"c">>,
                      tracks |-> << [ext |-> "json3", url |-> "m1", name |-> <<>>],
                                    [ext |-> "vtt", url |-> "m2", name |-> <<"C">>] >>] >>,
    automatic_captions |->
                 << [lang |-> <<"c">>,
                     tracks |-> << [ext |-> "vtt", url |-> "a1", name |-> <<>>] >>],
                    [lang |-> <<"d">>,
                     tracks |-> << [ext |-> "vtt", url |-> "a2", name |-> <<>>] >>] >> ]
DumpOutputs == <<DumpA, DumpBad>>

\* Exit codes of a process that ran.
ExitCodes == {0, 1}

\* ------------------------------------------------------------ state
VARIABLES
  keys,      \* the (videoId, lang) pairs the renderer asks for in this run
  files,     \* the cache directory: path -> content
  op,        \* per call: the operation called ("none" before the call)
  arg,       \* per call: <<videoId, lang>>
  pc,        \* per call: "idle", "awaitExec", "awaitVtt" (suspended at an await), "done"
  proc,      \* per call: the subprocess execYtdlp is waiting for
  outcome,   \* per call: how the returned promise settled
  spawns,    \* per call: the subprocesses it spawned, in order ("dump", "sub", "ts", "vtt")
  stepFailed,\* per call: whether an internal step of the call threw or rejected
  input,     \* the argument of a function applied on its own (<<>> when none is)
  result     \* what the function returned for it

vars == <<keys, files, op, arg, pc, proc, outcome, spawns, stepFailed, input, result>>

Calls == 1..MaxCalls

\* A subprocess: its state, its exit code once closed, and what it printed (a
\* position in DumpOutputs, 0 for nothing).
NoProc == [state |-> "none", code |-> 0, stdout |-> 0]
Pending == [kind |-> "pending"]
Resolved(v) == [kind |-> "resolved", value |-> v]
Rejected(e) == [kind |-> "rejected", error |-> e]

\* The errors: new Error(`yt-dlp exited with code ${code}: ...`), the spawn
\* 'error' event's err, new Error('Subtitle file not found after download'),
\* and JSON.parse's SyntaxError.
ExitError(code) == [name |-> "yt-dlp exited with code", code |-> code]
SpawnError == [name |-> "spawn error", code |-> -1]
SubtitleNotFound == [name |-> "Subtitle file not found after download", code |-> -1]
SyntaxError == [name |-> "SyntaxError", code |-> -1]

\* fs.existsSync, fs.writeFileSync, fs.unlinkSync on the directory.
existsSync(fs, path) == path \in DOMAIN fs
writeFileSync(fs, path, content) ==
  [q \in DOMAIN fs \cup {path} |-> IF q = path THEN content ELSE fs[q]]
unlinkSync(fs, path) == [q \in DOMAIN fs \ {path} |-> fs[q]]

\* The service after its construction: the cache directory exists, no call yet.
Constructed ==
  /\ files = <<>>
  /\ op = [c \in Calls |-> "none"]
  /\ arg = [c \in Calls |-> << <<>>, <<>> >>]
  /\ pc = [c \in Calls |-> "idle"]
  /\ proc = [c \in Calls |-> NoProc]
  /\ outcome = [c \in Calls |-> Pending]
  /\ spawns = [c \in Calls |-> <<>>]
  /\ stepFailed = [c \in Calls |-> FALSE]

Init ==
  /\ Constructed
  /\ keys \in KeySets
  /\ input = <<>>
  /\ result = <<>>


\* ------------------------------------------------------------ the process runner

\* The call c is the next one the application makes.
NextCall(c) == pc[c] = "idle" /\ (IF c = 1 THEN TRUE ELSE pc[c - 1] # "idle")

\* A rival of execYtdlp that starts the process a second time.
execYtdlpTwice(c, kind) ==
  /\ proc' = [proc EXCEPT ![c] = [state |-> "running", code |-> 0, stdout |-> 0]]
  /\ spawns' = [spawns EXCEPT ![c] = Append(Append(@, kind), kind)]

\* execYtdlp up to its return: spawn('yt-dlp', finalArgs) with the handlers
\* set; kind names the argument list (dumpArgs, or subtitleArgs of that kind).
execYtdlp(c, kind) ==
  /\ proc' = [proc EXCEPT ![c] = [state |-> "running", code |-> 0, stdout |-> 0]]
  /\ spawns' = [spawns EXCEPT ![c] = Append(@, kind)]

\* The argument list of the i-th subprocess call c spawned.
spawnArgs(c, i) ==
  IF spawns[c][i] = "dump" THEN dumpArgs(arg[c][1])
  ELSE subtitleArgs(arg[c][1], arg[c][2], spawns[c][i])

\* The files a yt-dlp subtitle download names: <output>.<lang>.<format>, and
\* the same with the auto marker.
ytdlpFiles(args) ==
  << args.output \o <<".">> \o args.subLang \o <<".", args.format>>,
     args.output \o <<".">> \o args.subLang \o <<".", "auto", ".", args.format>> >>

\* The contents yt-dlp writes into its two files in a given format.
Payloads(format) == IF format = "json3" THEN Json3Payloads ELSE VttPayloads

\* The argument list the running process of call c was spawned with.
procArgs(c) == spawnArgs(c, Len(spawns[c]))

\* The directory after a download wrote the candidates in W, w[i] into the i-th.
RECURSIVE ytdlpWrite(_, _, _, _)
ytdlpWrite(fs, names, W, w) ==
  IF W = {} THEN fs
  ELSE LET i == CHOOSE k \in W : TRUE
       IN ytdlpWrite(writeFileSync(fs, names[i], w[i]), names, W \ {i}, w)

\* The yt-dlp process of call c runs to its end.  A dump prints something and
\* closes with some exit code.  A download that succeeds has written none, one
\* or both of its files; one that fails has written nothing.
YtdlpClose(c) ==
  /\ proc[c].state = "running"
  /\ \E code \in ExitCodes :
       IF procArgs(c).mode = "dump-json"
       THEN /\ \E out \in (IF code = 0 THEN DOMAIN DumpOutputs ELSE {0}) :
                 proc' = [proc EXCEPT ![c].state = "closed", ![c].code = code,
                                      ![c].stdout = out]
            /\ files' = files
       ELSE /\ proc' = [proc EXCEPT ![c].state = "closed", ![c].code = code]
            /\ \E W \in (IF code = 0 THEN SUBSET {1, 2} ELSE {{}}) :
                 files' = ytdlpWrite(files, ytdlpFiles(procArgs(c)), W,
                                     Payloads(procArgs(c).format))
  /\ UNCHANGED <<op, arg, pc, outcome, spawns, stepFailed>>
  /\ UNCHANGED <<keys, input, result>>

\* The process could not be started: the 'error' event.
YtdlpError(c) ==
  /\ proc[c].state = "running"
  /\ proc' = [proc EXCEPT ![c].state = "error"]
  /\ UNCHANGED <<files, op, arg, pc, outcome, spawns, stepFailed>>
  /\ UNCHANGED <<keys, input, result>>

\* How execYtdlp's promise settled for a process that closed or failed.
settled(p) ==
  IF p.state = "closed" /\ p.code = 0
  THEN Resolved(IF p.stdout = 0 THEN <<>> ELSE DumpOutputs[p.stdout])
  ELSE IF p.state = "closed" THEN Rejected(ExitError(p.code))
  ELSE Rejected(SpawnError)

\* A rival of Settled: a runner that listens to 'close' only.
SettledOnClose(c) == proc[c].state = "closed"

\* The await of call c on execYtdlp can resume.
Settled(c) == proc[c].state \in {"closed", "error"}

\* ------------------------------------------------------------ downloadSubtitle

\* The text downloadSubtitle caches and returns for a downloaded file.
textContent(vttContent) == parseVttToText(vttContent)

\* A rival of rethrown: the catch block throws an error of its own.
rethrownWrapped(error) == [name |-> "Failed to download subtitle", code |-> error.code]

\* The error the catch block of downloadSubtitle throws for a caught error.
rethrown(error) == error

\* A rival of cached: the downloaded file is cached as it is.
cachedRaw(vttContent) == vttContent

\* What downloadSubtitle writes to the cache file for a downloaded file.
cached(vttContent) == textContent(vttContent)

\* A rival of cleanup: the cache entry goes with the downloaded file.
cleanupAll(fs, file, cache) == unlinkSync(unlinkSync(fs, file), cache)

\* The cleanup of downloadSubtitle: fs.unlinkSync(file).
cleanup(fs, file, cache) == unlinkSync(fs, file)

\* A rival of missing: no file means no text.
missingEmpty == Resolved(<<>>)

\* A rival of failed: a failing download evicts the cache entry.
failedEvicts(fs, cache) == IF existsSync(fs, cache) THEN unlinkSync(fs, cache) ELSE fs

\* The cache directory after the catch block of downloadSubtitle: the block
\* logs and rethrows, and touches no file.
failed(fs, cache) == fs

\* How downloadSubtitle ends when neither candidate exists: the throw after
\* the probe loop, through the catch block.
missing == Rejected(rethrown(SubtitleNotFound))

\* A rival of firstExisting that probes the plain candidate only.
firstExistingPlain(fs, candidates) ==
  IF existsSync(fs, candidates[1]) THEN <<candidates[1]>> ELSE <<>>

\* A rival of firstExisting that probes the auto-suffixed candidate first.
firstExistingAutoFirst(fs, candidates) ==
  IF existsSync(fs, candidates[2]) THEN <<candidates[2]>>
  ELSE IF existsSync(fs, candidates[1]) THEN <<candidates[1]>>
  ELSE <<>>

\* The first of possibleFiles that exists, as a sequence of at most one path.
firstExisting(fs, candidates) ==
  IF existsSync(fs, candidates[1]) THEN <<candidates[1]>>
  ELSE IF existsSync(fs, candidates[2]) THEN <<candidates[2]>>
  ELSE <<>>

\* A rival of downloadSubtitle that never looks at the cache.
downloadSubtitleUncached(c, videoId, lang) ==
  /\ NextCall(c)
  /\ op' = [op EXCEPT ![c] = "downloadSubtitle"]
  /\ arg' = [arg EXCEPT ![c] = <<videoId, lang>>]
  /\ execYtdlp(c, "sub")
  /\ pc' = [pc EXCEPT ![c] = "awaitExec"]
  /\ UNCHANGED <<keys, files, outcome, stepFailed, input, result>>

\* A rival of downloadSubtitle that joins a download already in flight for the
\* same pair instead of starting its own.
downloadSubtitleCoalesced(c, videoId, lang) ==
  /\ NextCall(c)
  /\ op' = [op EXCEPT ![c] = "downloadSubtitle"]
  /\ arg' = [arg EXCEPT ![c] = <<videoId, lang>>]
  /\ IF existsSync(files, cacheFile(videoId, lang))
     THEN /\ outcome' = [outcome EXCEPT ![c] = Resolved(files[cacheFile(videoId, lang)])]
          /\ pc' = [pc EXCEPT ![c] = "done"]
          /\ UNCHANGED <<proc, spawns>>
     ELSE IF \E d \in Calls : /\ d # c /\ op[d] = "downloadSubtitle"
                               /\ arg[d] = <<videoId, lang>> /\ pc[d] = "awaitExec"
     THEN /\ pc' = [pc EXCEPT ![c] = "awaitExec"]
          /\ UNCHANGED <<proc, spawns, outcome>>
     ELSE /\ execYtdlp(c, "sub")
          /\ pc' = [pc EXCEPT ![c] = "awaitExec"]
          /\ UNCHANGED outcome
  /\ UNCHANGED <<keys, files, stepFailed, input, result>>

\* downloadSubtitle(videoId, lang) up to its first await, or to its return
\* when the cache has the text.
downloadSubtitle(c, videoId, lang) ==
  /\ NextCall(c)
  /\ op' = [op EXCEPT ![c] = "downloadSubtitle"]
  /\ arg' = [arg EXCEPT ![c] = <<videoId, lang>>]
  /\ IF existsSync(files, cacheFile(videoId, lang))
     THEN /\ outcome' = [outcome EXCEPT ![c] = Resolved(files[cacheFile(videoId, lang)])]
          /\ pc' = [pc EXCEPT ![c] = "done"]
          /\ UNCHANGED <<proc, spawns>>
     ELSE /\ execYtdlp(c, "sub")
          /\ pc' = [pc EXCEPT ![c] = "awaitExec"]
          /\ UNCHANGED outcome
  /\ UNCHANGED <<files, stepFailed>>
  /\ UNCHANGED <<keys, input, result>>

\* downloadSubtitle after the await: the probe, the parse, the cache write and
\* the cleanup, or the catch block.
downloadSubtitleResume(c) ==
  /\ op[c] = "downloadSubtitle" /\ pc[c] = "awaitExec" /\ Settled(c)
  /\ LET videoId == arg[c][1]
         lang    == arg[c][2]
         found   == firstExisting(files, possibleFiles(videoId, lang, "sub"))
     IN IF settled(proc[c]).kind = "rejected"
        THEN /\ outcome' = [outcome EXCEPT ![c] = Rejected(rethrown(settled(proc[c]).error))]
             /\ stepFailed' = [stepFailed EXCEPT ![c] = TRUE]
             /\ files' = failed(files, cacheFile(videoId, lang))
        ELSE IF found # <<>>
        THEN /\ files' = cleanup(
                           writeFileSync(files, cacheFile(videoId, lang),
                                         cached(files[found[1]])),
                           found[1], cacheFile(videoId, lang))
             /\ outcome' = [outcome EXCEPT ![c] = Resolved(textContent(files[found[1]]))]
             /\ stepFailed' = stepFailed
        ELSE /\ outcome' = [outcome EXCEPT ![c] = missing]
             /\ stepFailed' = [stepFailed EXCEPT ![c] = TRUE]
             /\ files' = failed(files, cacheFile(videoId, lang))
  /\ pc' = [pc EXCEPT ![c] = "done"]
  /\ proc' = [proc EXCEPT ![c] = NoProc]
  /\ UNCHANGED <<op, arg, spawns>>
  /\ UNCHANGED <<keys, input, result>>


\* ------------------------------------------------------------ getSubtitleWithTimestamps

\* A rival of getSubtitleWithTimestamps that serves a cached transcript, as one
\* entry, when the pair has one.
getSubtitleWithTimestampsCached(c, videoId, lang) ==
  /\ NextCall(c)
  /\ op' = [op EXCEPT ![c] = "getSubtitleWithTimestamps"]
  /\ arg' = [arg EXCEPT ![c] = <<videoId, lang>>]
  /\ IF existsSync(files, cacheFile(videoId, lang))
     THEN /\ outcome' = [outcome EXCEPT ![c] =
                           Resolved(<<[start |-> 0, end |-> 0,
                                      text |-> files[cacheFile(videoId, lang)]]>>)]
          /\ pc' = [pc EXCEPT ![c] = "done"]
          /\ UNCHANGED <<proc, spawns>>
     ELSE /\ execYtdlp(c, "ts")
          /\ pc' = [pc EXCEPT ![c] = "awaitExec"]
          /\ UNCHANGED outcome
  /\ UNCHANGED <<files, stepFailed>>
  /\ UNCHANGED <<keys, input, result>>

\* getSubtitleWithTimestamps(videoId, lang) up to its await of the json3 run.
getSubtitleWithTimestamps(c, videoId, lang) ==
  /\ NextCall(c)
  /\ op' = [op EXCEPT ![c] = "getSubtitleWithTimestamps"]
  /\ arg' = [arg EXCEPT ![c] = <<videoId, lang>>]
  /\ execYtdlp(c, "ts")
  /\ pc' = [pc EXCEPT ![c] = "awaitExec"]
  /\ UNCHANGED <<files, outcome, stepFailed>>
  /\ UNCHANGED <<keys, input, result>>

\* What the promise of getSubtitleWithTimestamps becomes when the promise it
\* returned from inside its try block (getSubtitleFromVtt's, not awaited
\* there) settles as r: the catch block is no longer on the stack.
returnedFromTry(r) == r

\* getSubtitleWithTimestamps after the await: the json3 probe and parse, the
\* catch block, or the call of getSubtitleFromVtt up to its own await.
getSubtitleWithTimestampsResume(c) ==
  /\ op[c] = "getSubtitleWithTimestamps" /\ pc[c] = "awaitExec" /\ Settled(c)
  /\ LET videoId == arg[c][1]
         lang    == arg[c][2]
         found   == firstExisting(files, possibleFiles(videoId, lang, "ts"))
     IN IF settled(proc[c]).kind = "rejected"
        THEN /\ outcome' = [outcome EXCEPT ![c] = Resolved(<<>>)]
             /\ stepFailed' = [stepFailed EXCEPT ![c] = TRUE]
             /\ pc' = [pc EXCEPT ![c] = "done"]
             /\ proc' = [proc EXCEPT ![c] = NoProc]
             /\ UNCHANGED <<files, spawns>>
        ELSE IF found # <<>> /\ ~files[found[1]].valid
        THEN /\ outcome' = [outcome EXCEPT ![c] = Resolved(<<>>)]
             /\ stepFailed' = [stepFailed EXCEPT ![c] = TRUE]
             /\ pc' = [pc EXCEPT ![c] = "done"]
             /\ proc' = [proc EXCEPT ![c] = NoProc]
             /\ UNCHANGED <<files, spawns>>
        ELSE IF found # <<>>
        THEN /\ outcome' = [outcome EXCEPT ![c] = Resolved(parseJson3(files[found[1]]))]
             /\ files' = unlinkSync(files, found[1])
             /\ pc' = [pc EXCEPT ![c] = "done"]
             /\ proc' = [proc EXCEPT ![c] = NoProc]
             /\ UNCHANGED <<spawns, stepFailed>>
        ELSE /\ execYtdlp(c, "vtt")
             /\ pc' = [pc EXCEPT ![c] = "awaitVtt"]
             /\ UNCHANGED <<files, outcome, stepFailed>>
  /\ UNCHANGED <<op, arg>>
  /\ UNCHANGED <<keys, input, result>>

\* getSubtitleFromVtt after its await, and with it the settling of the
\* getSubtitleWithTimestamps promise that adopted its promise.
getSubtitleFromVttResume(c) ==
  /\ op[c] = "getSubtitleWithTimestamps" /\ pc[c] = "awaitVtt" /\ Settled(c)
  /\ LET videoId == arg[c][1]
         lang    == arg[c][2]
         found   == firstExisting(files, possibleFiles(videoId, lang, "vtt"))
     IN IF settled(proc[c]).kind = "rejected"
        THEN /\ outcome' = [outcome EXCEPT ![c] = returnedFromTry(settled(proc[c]))]
             /\ stepFailed' = [stepFailed EXCEPT ![c] = TRUE]
             /\ files' = files
        ELSE IF found # <<>>
        THEN /\ outcome' = [outcome EXCEPT ![c] =
                              returnedFromTry(Resolved(parseVttToEntries(files[found[1]])))]
             /\ files' = unlinkSync(files, found[1])
             /\ stepFailed' = stepFailed
        ELSE /\ outcome' = [outcome EXCEPT ![c] = returnedFromTry(Resolved(<<>>))]
             /\ UNCHANGED <<files, stepFailed>>
  /\ pc' = [pc EXCEPT ![c] = "done"]
  /\ proc' = [proc EXCEPT ![c] = NoProc]
  /\ UNCHANGED <<op, arg, spawns>>
  /\ UNCHANGED <<keys, input, result>>

\* ------------------------------------------------------------ getVideoInfo

\* getVideoInfo(videoId) up to its await of the metadata dump.
getVideoInfo(c, videoId) ==
  /\ NextCall(c)
  /\ op' = [op EXCEPT ![c] = "getVideoInfo"]
  /\ arg' = [arg EXCEPT ![c] = <<videoId, <<>> >>]
  /\ execYtdlp(c, "dump")
  /\ pc' = [pc EXCEPT ![c] = "awaitExec"]
  /\ UNCHANGED <<files, outcome, stepFailed>>
  /\ UNCHANGED <<keys, input, result>>

\* getVideoInfo after the await: JSON.parse and the track list.
getVideoInfoResume(c) ==
  /\ op[c] = "getVideoInfo" /\ pc[c] = "awaitExec" /\ Settled(c)
  /\ IF settled(proc[c]).kind = "rejected"
     THEN /\ outcome' = [outcome EXCEPT ![c] = settled(proc[c])]
          /\ stepFailed' = [stepFailed EXCEPT ![c] = TRUE]
     ELSE IF ~settled(proc[c]).value.valid
     THEN /\ outcome' = [outcome EXCEPT ![c] = Rejected(SyntaxError)]
          /\ stepFailed' = [stepFailed EXCEPT ![c] = TRUE]
     ELSE /\ outcome' = [outcome EXCEPT ![c] = Resolved(videoInfo(settled(proc[c]).value))]
          /\ stepFailed' = stepFailed
  /\ pc' = [pc EXCEPT ![c] = "done"]
  /\ proc' = [proc EXCEPT ![c] = NoProc]
  /\ UNCHANGED <<files, op, arg, spawns>>
  /\ UNCHANGED <<keys, input, result>>

\* ------------------------------------------------------------ specifications

\* A call is made.
Call(c) ==
  \/ \E k \in keys : downloadSubtitle(c, k[1], k[2])
  \/ \E k \in keys : getSubtitleWithTimestamps(c, k[1], k[2])
  \/ \E videoId \in VideoIds : getVideoInfo(c, videoId)

\* A subprocess runs, or a suspended call resumes.
Step(c) ==
  \/ YtdlpClose(c)
  \/ YtdlpError(c)
  \/ downloadSubtitleResume(c)
  \/ getSubtitleWithTimestampsResume(c)
  \/ getSubtitleFromVttResume(c)
  \/ getVideoInfoResume(c)

\* The IPC handlers call the service whenever the renderer asks: calls overlap.
Next == \E c \in Calls : Call(c) \/ Step(c)

Spec == Init /\ [][Next]_vars

\* The subprocess of call c exits: it closes, or it could not start.
Exits(c) == YtdlpClose(c) \/ YtdlpError(c)

\* The call c, suspended at an await whose promise is settled, runs on: the
\* steps of Next that do this are those of the four continuations
\* (downloadSubtitleResume, getSubtitleWithTimestampsResume,
\* getSubtitleFromVttResume, getVideoInfoResume), which move pc[c] and nothing
\* else does while the call is suspended.
Continues(c) ==
  /\ pc[c] \in {"awaitExec", "awaitVtt"} /\ Settled(c)
  /\ pc' \in { [pc EXCEPT ![c] = v] : v \in {"awaitVtt", "done"} }

\* Overlapping calls where every spawned subprocess exits in the end and the
\* event loop runs every continuation that is ready.
SpecLive ==
  /\ Init /\ [][Next]_vars
  /\ \A c \in Calls : WF_vars(Exits(c)) /\ WF_pc(Continues(c))

\* No call is suspended.
Quiet == \A c \in Calls : pc[c] \in {"idle", "done"}

\* A caller that awaits each call before it makes the next.
NextSeq == \E c \in Calls : (Quiet /\ Call(c)) \/ Step(c)

SpecSeq == Init /\ [][NextSeq]_vars


\* ------------------------------------------------------------ claims

Done(c) == pc[c] = "done"
IsDownload(c) == op[c] = "downloadSubtitle"
IsTimestamps(c) == op[c] = "getSubtitleWithTimestamps"
IsInfo(c) == op[c] = "getVideoInfo"

\* The step in which call c, a downloadSubtitle for the pair k, is made.
Calling(c, k) ==
  pc[c] = "idle" /\ op'[c] = "downloadSubtitle" /\ arg'[c] = k

\* The step in which the suspended call c resumes after its subprocess and ends.
Resuming(c) == pc[c] = "awaitExec" /\ Settled(c) /\ pc'[c] = "done"

\* C1: getSubtitleWithTimestamps never fails: whatever the json3 run and the
\* VTT fallback run did and whatever the scratch files hold, the returned
\* promise resolves, and it resolves to the empty sequence whenever an
\* internal step failed.
C1_NeverFails ==
  \A c \in Calls :
    (IsTimestamps(c) /\ Done(c)) =>
      /\ outcome[c].kind = "resolved"
      /\ stepFailed[c] => outcome[c].value = <<>>

\* C2: if a cache entry exists for (videoId, lang) when downloadSubtitle is
\* called, the call returns exactly the stored text, spawns no subprocess and
\* writes no file.
C2_CacheHit ==
  [][\A c \in Calls : \A k \in keys :
       (Calling(c, k) /\ existsSync(files, cacheFile(k[1], k[2]))) =>
         /\ pc'[c] = "done"
         /\ outcome'[c] = Resolved(files[cacheFile(k[1], k[2])])
         /\ spawns'[c] = <<>>
         /\ proc' = proc
         /\ files' = files]_vars

\* A downloadSubtitle call was served from the cache.
C2_Witness ==
  \E c \in Calls :
    /\ IsDownload(c) /\ Done(c) /\ spawns[c] = <<>>
    /\ outcome[c].kind = "resolved" /\ outcome[c].value # <<>>

\* C3: round trip: when downloadSubtitle(videoId, lang) returned a text and is
\* called again with the same arguments, one call after the other, the second
\* call returns the very same text and spawns no subprocess.
C3_RoundTrip ==
  \A c \in Calls : \A d \in Calls :
    ( /\ c < d /\ IsDownload(c) /\ IsDownload(d) /\ arg[c] = arg[d]
      /\ Done(c) /\ outcome[c].kind = "resolved" ) =>
        /\ Done(d)
        /\ outcome[d] = outcome[c]
        /\ spawns[d] = <<>>

\* A download that produced a text was followed by a call for the same pair.
C3_Witness ==
  \E c \in Calls : \E d \in Calls :
    /\ c < d /\ IsDownload(c) /\ IsDownload(d) /\ arg[c] = arg[d]
    /\ Done(c) /\ Done(d) /\ spawns[c] = <<"sub">>
    /\ outcome[c].kind = "resolved" /\ outcome[c].value # <<>>

\* C4: cache permanence: once a cache entry for a pair exists, no step of any
\* operation, in any interleaving, removes it, and every downloadSubtitle call
\* made for that pair afterwards is served from it.
C4_Permanent ==
  [][\A k \in keys :
       existsSync(files, cacheFile(k[1], k[2])) =>
         /\ existsSync(files', cacheFile(k[1], k[2]))
         /\ \A c \in Calls :
              Calling(c, k) =>
                /\ pc'[c] = "done"
                /\ outcome'[c] = Resolved(files'[cacheFile(k[1], k[2])])
                /\ spawns'[c] = <<>>]_vars

\* A cache entry exists, and calls of the operations that delete files have
\* run to their end since.
C4_Witness ==
  \E k \in keys : \E c \in Calls : \E d \in Calls :
    /\ existsSync(files, cacheFile(k[1], k[2]))
    /\ c < d /\ IsDownload(c) /\ arg[c] = k /\ Done(c) /\ spawns[c] = <<"sub">>
    /\ Done(d) /\ spawns[d] # <<>> /\ outcome[d].kind = "resolved"
    /\ outcome[d].value # <<>>

\* C5: when the subprocess of downloadSubtitle or getVideoInfo fails (a non-zero
\* exit, or it cannot start), the call fails with that same error, unchanged,
\* and a failed downloadSubtitle leaves the cache directory as it was.
C5_Propagates ==
  [][\A c \in Calls :
       ( /\ Resuming(c) /\ (IsDownload(c) \/ IsInfo(c))
         /\ settled(proc[c]).kind = "rejected" ) =>
           /\ outcome'[c] = settled(proc[c])
           /\ IsDownload(c) => files' = files]_vars

\* A download failed on a process that could not start, and a metadata dump
\* on a non-zero exit.
C5_Witness ==
  \E c \in Calls : \E d \in Calls :
    /\ IsDownload(c) /\ Done(c) /\ outcome[c] = Rejected(SpawnError)
    /\ IsInfo(d) /\ Done(d) /\ outcome[d] = Rejected(ExitError(1))

\* C6: if the subprocess of downloadSubtitle exits with code 0 and neither
\* candidate file exists when the call resumes, the call fails with the
\* subtitle-not-found error and writes no cache entry.
C6_NotFound ==
  [][\A c \in Calls :
       ( /\ Resuming(c) /\ IsDownload(c)
         /\ settled(proc[c]).kind = "resolved"
         /\ ~existsSync(files, possibleFiles(arg[c][1], arg[c][2], "sub")[1])
         /\ ~existsSync(files, possibleFiles(arg[c][1], arg[c][2], "sub")[2]) ) =>
           /\ outcome'[c] = Rejected(SubtitleNotFound)
           /\ files' = files]_vars

\* A download ended with the subtitle-not-found error.
C6_Witness ==
  \E c \in Calls :
    IsDownload(c) /\ Done(c) /\ outcome[c] = Rejected(SubtitleNotFound)

\* C7: two downloadSubtitle calls for the same pair that are both suspended
\* (so neither has written the cache yet) have each spawned a subprocess of
\* their own, and the two processes write to the same files.
C7_NoCoalescing ==
  \A c \in Calls : \A d \in Calls :
    ( /\ c # d /\ IsDownload(c) /\ IsDownload(d) /\ arg[c] = arg[d]
      /\ pc[c] = "awaitExec" /\ pc[d] = "awaitExec" ) =>
        /\ spawns[c] = <<"sub">> /\ proc[c].state # "none"
        /\ spawns[d] = <<"sub">> /\ proc[d].state # "none"
        /\ ytdlpFiles(spawnArgs(c, 1)) = ytdlpFiles(spawnArgs(d, 1))
        /\ ytdlpFiles(spawnArgs(c, 1)) = possibleFiles(arg[d][1], arg[d][2], "sub")

\* Two downloads for the same pair are suspended at once, both processes done.
C7_Witness ==
  \E c \in Calls : \E d \in Calls :
    /\ c # d /\ IsDownload(c) /\ IsDownload(d) /\ arg[c] = arg[d]
    /\ pc[c] = "awaitExec" /\ pc[d] = "awaitExec"
    /\ proc[c].state = "closed" /\ proc[d].state = "closed"

\* The files a downloadSubtitle call for the pair k reads, writes or deletes.
touched(k) ==
  { cacheFile(k[1], k[2]),
    possibleFiles(k[1], k[2], "sub")[1], possibleFiles(k[1], k[2], "sub")[2] }

\* C8: two concurrent downloadSubtitle calls for different pairs are
\* independent: the cache file and scratch files of the one are disjoint from
\* those of the other.
C8_Independent ==
  \A c \in Calls : \A d \in Calls :
    ( /\ IsDownload(c) /\ IsDownload(d) /\ arg[c] # arg[d]
      /\ pc[c] = "awaitExec" /\ pc[d] = "awaitExec" ) =>
        touched(arg[c]) \cap touched(arg[d]) = {}


\* ------------------------------------------------------------ track discovery on its own
\* getVideoInfo's track list and the language normalization of the three
\* downloads, applied to metadata dumps drawn from a bounded set.

\* Raw language codes of a dump: a plain one, and two that themselves hold the
\* text of the qualifier.
RawLangs == { <<"e">>, <<"e", AUTO>>, <<AUTO, "e">> }

\* A track of the given origin ("manual", "auto"), language and format; its url
\* names all three.
Track(origin, lang, ext, name) ==
  [ext |-> ext, url |-> <<origin>> \o lang \o <<ext>>, name |-> name]

\* The track lists a caption group may hold.
TrackLists(origin, lang) ==
  IF origin = "manual"
  THEN { <<>>,
         <<Track(origin, lang, "vtt", <<>>)>>,
         <<Track(origin, lang, "json3", <<"N">>), Track(origin, lang, "vtt", <<>>)>> }
  ELSE { <<>>, <<Track(origin, lang, "json3", <<>>)>> }

\* The caption groups of one language.
GroupsOf(origin, lang) ==
  { [lang |-> lang, tracks |-> t] : t \in TrackLists(origin, lang) }

\* The caption sets of at most n groups, their languages pairwise distinct (the
\* keys of one JSON object).
RECURSIVE CaptionSets(_, _, _)
CaptionSets(origin, n, used) ==
  {<<>>} \cup
  ( IF n = 0 THEN {}
    ELSE UNION { { <<g>> \o rest : g \in GroupsOf(origin, lang),
                                   rest \in CaptionSets(origin, n - 1, used \cup {lang}) }
                 : lang \in RawLangs \ used } )

\* The dumps JSON.parse accepts.
Dumps ==
  { [ valid |-> TRUE, id |-> <<"a">>, title |-> <<"t">>,
      subtitles |-> m, automatic_captions |-> a ] :
      m \in CaptionSets("manual", MaxGroups, {}),
      a \in CaptionSets("auto", MaxGroups, {}) }

\* The three downloads that normalize a language.
DownloadKinds == {"sub", "ts", "vtt"}

InitInfo ==
  /\ Constructed
  /\ keys = {}
  /\ input \in Dumps
  /\ result = [stage |-> "none", tracks |-> <<>>, pick |-> 0, kind |-> "none",
               subLang |-> <<>>]

\* getVideoInfo's track list is computed for the dump.
Discover ==
  /\ result.stage = "none"
  /\ result' = [result EXCEPT !.stage = "tracks", !.tracks = subtitleTracks(input)]
  /\ UNCHANGED <<keys, files, op, arg, pc, proc, outcome, spawns, stepFailed, input>>

\* The caller picks the exposed track i and asks for a download of the given
\* kind with its language: the argument list is built.
Normalize(i, kind) ==
  /\ result.stage = "tracks"
  /\ i \in 1..Len(result.tracks)
  /\ result' = [result EXCEPT
                  !.stage = "args", !.pick = i, !.kind = kind,
                  !.subLang = subtitleArgs(input.id, result.tracks[i].lang, kind).subLang]
  /\ UNCHANGED <<keys, files, op, arg, pc, proc, outcome, spawns, stepFailed, input>>

NextInfo ==
  \/ Discover
  \/ \E i \in 1..(2 * MaxGroups) : \E kind \in DownloadKinds : Normalize(i, kind)

SpecInfo == InitInfo /\ [][NextInfo]_vars

\* The groups of a caption set that hold a track.
Present(set) == { i \in 1..Len(set) : set[i].tracks # <<>> }

\* C9: the track list getVideoInfo returns holds at most one track per
\* language code, and for a language with both a manual and an automatic
\* track the one exposed track has the unsuffixed code and the manual entry's
\* url; the automatic one is not exposed.
C9_OneTrackPerLang ==
  result.stage # "none" =>
    LET tracks == result.tracks
        man    == input.subtitles
        aut    == input.automatic_captions
    IN /\ \A i \in 1..Len(tracks) : \A j \in 1..Len(tracks) :
            i # j => tracks[i].lang # tracks[j].lang
       /\ \A m \in Present(man) : \A a \in Present(aut) :
            man[m].lang = aut[a].lang =>
              /\ \E i \in 1..Len(tracks) :
                   /\ tracks[i].lang = man[m].lang
                   /\ tracks[i].url = vttTrack(man[m].tracks)[1].url
              /\ \A i \in 1..Len(tracks) :
                   tracks[i].url # vttTrack(aut[a].tracks)[1].url

\* C10: the code getVideoInfo exposes for an automatic-only track of raw
\* language L is L with the qualifier, and each of the three downloads turns
\* it back into exactly L as its --sub-lang argument; a code without the
\* qualifier is passed unchanged.
C10_LangRoundTrip ==
  result.stage = "args" =>
    LET t   == result.tracks[result.pick]
        aut == input.automatic_captions
    IN /\ \A a \in Present(aut) :
            t.url = vttTrack(aut[a].tracks)[1].url =>
              /\ t.lang = aut[a].lang \o <<AUTO>>
              /\ result.subLang = aut[a].lang
       /\ ~includes(t.lang, AUTO) => result.subLang = t.lang

\* ------------------------------------------------------------ claims on the calls, continued

\* The cached transcripts of a directory: its .txt files and what they hold.
CacheEntries(fs) ==
  [ q \in { f \in DOMAIN fs : f[Len(f)] = ".txt" } |-> fs[q] ]

\* The step is one of call c itself: the call is made, or it resumes.
StepOf(c) == pc'[c] # pc[c]

\* C11: getVideoInfo and getSubtitleWithTimestamps leave the cached transcripts
\* alone: no step of either changes the set or the contents of the cache
\* entries, and a getSubtitleWithTimestamps call spawns a subprocess when it is
\* made, whether or not the cache holds a transcript for its pair.
C11_CacheUntouched ==
  [][\A c \in Calls :
       (StepOf(c) /\ op'[c] \in {"getVideoInfo", "getSubtitleWithTimestamps"}) =>
         /\ CacheEntries(files') = CacheEntries(files)
         /\ (pc[c] = "idle" /\ op'[c] = "getSubtitleWithTimestamps") =>
              /\ spawns'[c] = <<"ts">>
              /\ proc'[c].state = "running"
              /\ pc'[c] = "awaitExec"]_vars

\* A getSubtitleWithTimestamps call ran to its end, with entries, for a pair
\* whose transcript a downloadSubtitle call had cached.
C11_Witness ==
  \E c \in Calls : \E d \in Calls :
    /\ IsDownload(c) /\ Done(c) /\ spawns[c] = <<"sub">>
    /\ IsTimestamps(d) /\ Done(d) /\ arg[d] = arg[c] /\ c < d
    /\ existsSync(files, cacheFile(arg[d][1], arg[d][2]))
    /\ spawns[d] # <<>>
    /\ outcome[d].kind = "resolved" /\ outcome[d].value # <<>>

\* ------------------------------------------------------------ the process runner on its own
\* execYtdlp with the events of one child process: 'data' on its two streams,
\* 'close' and 'error'.  input says whether the process could be started;
\* result holds the two accumulators, the promise, and the events fired so far,
\* each with what the accumulators held when it fired.

\* The chunks a stream delivers.
Chunks == {"o", "p"}

\* The code 'close' carries for a process that could not be started (an errno).
FailedStartCode == -2

\* new Error(`yt-dlp exited with code ${code}: ${stderr}`)
ExitErrorText(code, stderr) ==
  [name |-> "yt-dlp exited with code", code |-> code, stderr |-> stderr]

\* A rival of settle: the last call of resolve or reject decides.
settleLast(promise, r) == r

\* resolve(...) or reject(...) on the promise of execYtdlp: a promise settles
\* once, later calls change nothing.
settle(promise, r) == IF promise.kind = "pending" THEN r ELSE promise

InitRunner ==
  /\ Constructed
  /\ keys = {}
  /\ input \in [starts : BOOLEAN]
  /\ result = [stdout |-> <<>>, stderr |-> <<>>, promise |-> Pending, fired |-> <<>>]

Fired(event, code) ==
  Append(result.fired, [event |-> event, code |-> code,
                        stdout |-> result.stdout, stderr |-> result.stderr])

HasFired(event) == \E i \in 1..Len(result.fired) : result.fired[i].event = event

\* proc.stdout.on('data'): stdout += data.toString()
StdoutData(chunk) ==
  /\ input.starts /\ ~HasFired("close") /\ Len(result.stdout) < MaxData
  /\ result' = [result EXCEPT !.stdout = Append(@, chunk)]
  /\ UNCHANGED <<keys, files, op, arg, pc, proc, outcome, spawns, stepFailed, input>>

\* proc.stderr.on('data'): stderr += data.toString()
StderrData(chunk) ==
  /\ input.starts /\ ~HasFired("close") /\ Len(result.stderr) < MaxData
  /\ result' = [result EXCEPT !.stderr = Append(@, chunk)]
  /\ UNCHANGED <<keys, files, op, arg, pc, proc, outcome, spawns, stepFailed, input>>

\* proc.on('close', code)
OnClose(code) ==
  /\ ~HasFired("close")
  /\ IF input.starts THEN code \in ExitCodes ELSE code = FailedStartCode
  /\ result' = [result EXCEPT
                  !.promise = settle(@, IF code = 0
                                        THEN Resolved(result.stdout)
                                        ELSE Rejected(ExitErrorText(code, result.stderr))),
                  !.fired = Fired("close", code)]
  /\ UNCHANGED <<keys, files, op, arg, pc, proc, outcome, spawns, stepFailed, input>>

\* proc.on('error', err): the process could not be started.
OnError ==
  /\ ~input.starts /\ ~HasFired("error")
  /\ result' = [result EXCEPT !.promise = settle(@, Rejected(SpawnError)),
                              !.fired = Fired("error", 0)]
  /\ UNCHANGED <<keys, files, op, arg, pc, proc, outcome, spawns, stepFailed, input>>

NextRunner ==
  \/ \E chunk \in Chunks : StdoutData(chunk)
  \/ \E chunk \in Chunks : StderrData(chunk)
  \/ \E code \in ExitCodes \cup {FailedStartCode} : OnClose(code)
  \/ OnError

SpecRunner == InitRunner /\ [][NextRunner]_vars

\* C12: the promise of the process runner is settled by the first 'close' or
\* 'error' event and never changes afterwards.  It resolves, with the standard
\* output accumulated so far, only on a close with exit code 0; a close with
\* another code rejects with an error carrying that code and the accumulated
\* standard error; a process that could not be started rejects, whichever of
\* its 'error' and 'close' events comes first.
C12_SettledOnce ==
  /\ [](/\ (result.promise.kind = "pending") <=> (result.fired = <<>>)
        /\ result.fired # <<>> =>
             LET f == result.fired[1]
             IN /\ (f.event = "close" /\ f.code = 0) =>
                     result.promise = [kind |-> "resolved", value |-> f.stdout]
                /\ (f.event = "close" /\ f.code # 0) =>
                     /\ result.promise.kind = "rejected"
                     /\ result.promise.error.code = f.code
                     /\ result.promise.error.stderr = f.stderr
                /\ f.event = "error" => result.promise = Rejected(SpawnError)
        /\ (~input.starts /\ result.fired # <<>>) => result.promise.kind = "rejected")
  /\ [][result.promise.kind # "pending" => result'.promise = result.promise]_vars

\* A process that could not be started has fired both of its events, 'error'
\* first, and the promise holds the error of the first.
C12_Witness ==
  /\ ~input.starts /\ Len(result.fired) = 2
  /\ result.fired[1].event = "error" /\ result.fired[2].event = "close"
  /\ result.promise = Rejected(SpawnError)

\* ------------------------------------------------------------ the VTT parsers on their own
\* parseVttToText and parseVttToEntries applied to cue-based payloads: a header,
\* then blocks of an optional index line, a time-range line, text lines and an
\* optional blank line.  input is the sequence of blocks, result what a parser
\* returned for the payload they make.

TextHi == <<"h", "i">>
TextYo == <<"y", "o">>
TextTagged == <<"<", "c", ">", "h", "i", "<", "/", "c", ">">>

\* The text lines of a block.
BlockTexts ==
  { <<>>, <<TextHi>>, <<TextHi, TextHi>>, <<TextHi, TextYo>>, <<TextTagged>> }

\* The blocks: the range ends no earlier than it starts.
Blocks ==
  { b \in [start : Stamps, end : Stamps, text : BlockTexts, indexed : BOOLEAN] :
      stampMs(b.start) <= stampMs(b.end) }

\* The block sequences of at most n blocks whose starts do not decrease, the
\* first no earlier than `from`; a payload numbers all of its blocks or none.
RECURSIVE BlockSeqs(_, _, _)
BlockSeqs(n, from, indexed) ==
  {<<>>} \cup
  ( IF n = 0 THEN {}
    ELSE UNION { { <<b>> \o rest : rest \in BlockSeqs(n - 1, stampMs(b.start), indexed) }
                 : b \in { x \in Blocks : /\ stampMs(x.start) >= from
                                          /\ x.indexed = indexed } } )

VttHeader == << <<"WEBVTT">>, <<"Kind:", " ", "c">>, <<"Language:", " ", "e">>, <<>> >>

\* The lines of one block.
BlockLines(b) ==
  (IF b.indexed THEN << <<"1">> >> ELSE <<>>)
    \o << <<b.start, " ", "-->", " ", b.end>> >>
    \o b.text
    \o (IF b.indexed THEN << <<>> >> ELSE <<>>)

\* The payload of a block sequence: vtt.split('\n').
RECURSIVE VttLines(_)
VttLines(blocks) ==
  IF blocks = <<>> THEN <<>> ELSE BlockLines(Head(blocks)) \o VttLines(Tail(blocks))

VttOf(blocks) == VttHeader \o VttLines(blocks)

InitVtt ==
  /\ Constructed
  /\ keys = {}
  /\ input \in BlockSeqs(MaxBlocks, 0, TRUE) \cup BlockSeqs(MaxBlocks, 0, FALSE)
  /\ result = [fn |-> "none", out |-> <<>>]

\* parseVttToText is applied to the payload.
ParseText ==
  /\ result.fn = "none"
  /\ result' = [fn |-> "text", out |-> parseVttToText(VttOf(input))]
  /\ UNCHANGED <<keys, files, op, arg, pc, proc, outcome, spawns, stepFailed, input>>

\* parseVttToEntries is applied to the payload.
ParseEntries ==
  /\ result.fn = "none"
  /\ result' = [fn |-> "entries", out |-> parseVttToEntries(VttOf(input))]
  /\ UNCHANGED <<keys, files, op, arg, pc, proc, outcome, spawns, stepFailed, input>>

NextVtt == ParseText \/ ParseEntries

SpecVtt == InitVtt /\ [][NextVtt]_vars

\* The blocks of a sequence that hold text.
RECURSIVE WithText(_)
WithText(blocks) ==
  IF blocks = <<>> THEN <<>>
  ELSE (IF Head(blocks).text # <<>> THEN <<Head(blocks)>> ELSE <<>>)
         \o WithText(Tail(blocks))

\* hours*3600 + minutes*60 + seconds + millis/1000 of a time stamp, times 1000.
MillisOf(tok) ==
  CASE tok = "00:00:01.000" -> 1000
    [] tok = "00:00:02.500" -> 2500
    [] tok = "00:00:04.000" -> 4000

\* C13: for a payload whose time ranges end no earlier than they start and
\* come in non-decreasing start order, parseVttToEntries returns one entry per
\* block that has text, in order, each with the start and end of the block's
\* own time-range line; so every entry ends no earlier than it starts, and the
\* starts do not decrease.
C13_EntryTimes ==
  result.fn = "entries" =>
    LET e == result.out
        B == WithText(input)
    IN /\ Len(e) = Len(B)
       /\ \A i \in 1..Len(e) :
            /\ e[i].start = MillisOf(B[i].start)
            /\ e[i].end = MillisOf(B[i].end)
            /\ e[i].end >= e[i].start
            /\ i > 1 => e[i - 1].start <= e[i].start

\* Two blocks with different ranges, the first longer than an instant, were
\* parsed into two entries.
C13_Witness ==
  /\ result.fn = "entries" /\ Len(result.out) = 2 /\ Len(input) = 2
  /\ input[1].start # input[1].end /\ input[1].start # input[2].start
  /\ result.out[2].start > result.out[1].start

\* The cleaned text lines of a block sequence, in order.
RECURSIVE CleanLines(_)
CleanLines(ls) ==
  IF ls = <<>> THEN <<>>
  ELSE (IF skippedInText(trim(Head(ls))) \/ cleanText(trim(Head(ls))) = <<>>
        THEN <<>> ELSE <<cleanText(trim(Head(ls)))>>)
         \o CleanLines(Tail(ls))

\* A sequence without the elements that equal their predecessor.
RECURSIVE Collapse(_)
Collapse(ls) ==
  IF Len(ls) <= 1 THEN ls
  ELSE IF ls[Len(ls)] = ls[Len(ls) - 1]
       THEN Collapse(SubSeq(ls, 1, Len(ls) - 1))
       ELSE Append(Collapse(SubSeq(ls, 1, Len(ls) - 1)), ls[Len(ls)])

\* C14: the text parseVttToText returns never has two equal lines in a row,
\* and a line is dropped only for being equal to the line before it, also
\* across block boundaries: of two equal lines with a different one between
\* them, both are kept.
C14_AdjacentDedup ==
  result.fn = "text" =>
    /\ \A i \in 1..(Len(result.out) - 1) : result.out[i] # result.out[i + 1]
    /\ result.out = Collapse(CleanLines(VttOf(input)))

\* A line was repeated right after itself and once more after a different
\* line: the text holds it twice.
C14_Witness ==
  /\ result.fn = "text" /\ Len(input) = 2
  /\ input[1].text = <<TextHi, TextYo>> /\ input[2].text = <<TextHi, TextHi>>
  /\ result.out = <<TextHi, TextYo, TextHi>>

\* ------------------------------------------------------------ the json3 parse on its own
\* The loop of getSubtitleWithTimestamps over the events of a parsed json3
\* file, applied to event streams drawn from a bounded set.

\* The segs of an event: absent, empty, segments without text, segments of
\* blanks, and segments with text.
EventSegs ==
  { [hasSegs |-> FALSE, segs |-> <<>>],
    [hasSegs |-> TRUE, segs |-> <<>>],
    [hasSegs |-> TRUE, segs |-> << <<>> >>],
    [hasSegs |-> TRUE, segs |-> << <<" ">>, <<>> >>],
    [hasSegs |-> TRUE, segs |-> << <<"h">>, <<"i", " ">> >>],
    [hasSegs |-> TRUE, segs |-> << <<" ">>, <<"y", "o">> >>] }

\* tStartMs and dDurationMs of an event; 0 also stands for an absent field.
EventStarts == {0, 1000}
EventDurations == {0, 1500}

Events ==
  { [hasSegs |-> g.hasSegs, segs |-> g.segs, tStartMs |-> t, dDurationMs |-> d] :
      g \in EventSegs, t \in EventStarts, d \in EventDurations }

\* The event sequences of at most n events.
RECURSIVE EventSeqs(_)
EventSeqs(n) ==
  {<<>>} \cup
  ( IF n = 0 THEN {}
    ELSE { <<e>> \o rest : e \in Events, rest \in EventSeqs(n - 1) } )

\* The parsed json3 files: without an events field, or with one.
Json3Files ==
  { [valid |-> TRUE, hasEvents |-> FALSE, events |-> <<>>] } \cup
  { [valid |-> TRUE, hasEvents |-> TRUE, events |-> es] : es \in EventSeqs(MaxEvents) }

InitJson3 ==
  /\ Constructed
  /\ keys = {}
  /\ input \in Json3Files
  /\ result = [fn |-> "none", out |-> <<>>]

\* The entries are built from the parsed file.
ParseJson3 ==
  /\ result.fn = "none"
  /\ result' = [fn |-> "json3", out |-> parseJson3(input)]
  /\ UNCHANGED <<keys, files, op, arg, pc, proc, outcome, spawns, stepFailed, input>>

NextJson3 == ParseJson3

SpecJson3 == InitJson3 /\ [][NextJson3]_vars

\* The event has a segments list and some segment holds a character that is
\* no white space.
HasText(event) ==
  /\ event.hasSegs
  /\ \E i \in 1..Len(event.segs) : \E j \in 1..Len(event.segs[i]) :
       event.segs[i][j] \notin Whitespace

\* The events of a sequence that have text.
RECURSIVE Speaking(_)
Speaking(events) ==
  IF events = <<>> THEN <<>>
  ELSE (IF HasText(Head(events)) THEN <<Head(events)>> ELSE <<>>)
         \o Speaking(Tail(events))

\* C15: in the json3 parse an event without a segments list, with an empty
\* one, or whose segments hold nothing but white space produces no entry: the
\* entries are those of the events with text, in order, and the text of every
\* entry is non-empty and starts and ends with a character that is no white
\* space.
C15_NoEmptyEntries ==
  result.fn = "json3" =>
    LET e == result.out
        E == Speaking(input.events)
    IN /\ Len(e) = Len(E)
       /\ \A i \in 1..Len(e) :
            /\ e[i].text # <<>>
            /\ e[i].text[1] \notin Whitespace
            /\ e[i].text[Len(e[i].text)] \notin Whitespace
            /\ e[i].start = E[i].tStartMs

\* An event of blanks only stood before an event with text: one entry.
C15_Witness ==
  /\ result.fn = "json3" /\ Len(input.events) = 2
  /\ input.events[1].segs = << <<" ">>, <<>> >>
  /\ HasText(input.events[2])
  /\ Len(result.out) = 1

\* ------------------------------------------------------------ claims on the calls: termination

Suspended(c) == pc[c] \in {"awaitExec", "awaitVtt"}

\* C16: when every subprocess a call spawned exits in the end, every call that
\* was made reaches its end (a result, a propagated failure or the swallowed
\* empty result).  There is no timeout: while its subprocess runs, a suspended
\* call stays where it is and its promise stays pending.
C16_Terminates ==
  /\ \A c \in Calls : [](pc[c] # "idle" => <>Done(c))
  /\ [][\A c \in Calls :
          (Suspended(c) /\ proc[c].state = "running") =>
            /\ pc'[c] = pc[c]
            /\ outcome'[c] = Pending]_vars

\* Both calls ended, one of them after two subprocesses, one with a failure.
C16_Witness ==
  /\ \A c \in Calls : Done(c) /\ outcome[c].kind # "pending"
  /\ \E c \in Calls : spawns[c] = <<"ts", "vtt">>
  /\ \E c \in Calls : outcome[c].kind = "rejected"

\* ------------------------------------------------------------ claims on the calls: probes and files

\* The step in which the suspended call c runs on after a subprocess that
\* closed with exit code 0.
ResumingOk(c) ==
  /\ Suspended(c) /\ Settled(c) /\ StepOf(c)
  /\ proc[c].state = "closed" /\ proc[c].code = 0

\* The candidate files of the download call c is suspended on.
Candidates(c) ==
  possibleFiles(arg[c][1], arg[c][2],
                IF IsDownload(c) THEN "sub"
                ELSE IF pc[c] = "awaitVtt" THEN "vtt" ELSE "ts")

\* C17: in getSubtitleWithTimestamps the VTT download is requested if and only
\* if the json3 run succeeded and neither json3 candidate exists when the call
\* resumes; when a json3 candidate exists, the call ends there without a
\* second subprocess, with the entries of the json3 parse (none when the file
\* does not parse).
C17_FallbackIff ==
  [][\A c \in Calls :
       (IsTimestamps(c) /\ pc[c] = "awaitExec" /\ Settled(c) /\ StepOf(c)) =>
         LET cand == Candidates(c)
             any  == existsSync(files, cand[1]) \/ existsSync(files, cand[2])
             file == IF existsSync(files, cand[1]) THEN files[cand[1]] ELSE files[cand[2]]
             ok   == proc[c].state = "closed" /\ proc[c].code = 0
         IN /\ spawns[c] = <<"ts">>
            /\ (spawns'[c] = <<"ts", "vtt">> /\ pc'[c] = "awaitVtt") <=> (ok /\ ~any)
            /\ ~(ok /\ ~any) => (spawns'[c] = <<"ts">> /\ pc'[c] = "done")
            /\ (ok /\ any) =>
                 outcome'[c] = [kind |-> "resolved",
                                value |-> IF file.valid THEN parseJson3(file) ELSE <<>>]]_vars

\* One call took its entries from a json3 file with one subprocess, another
\* went on to the VTT download and took them from there.
C17_Witness ==
  \E c \in Calls : \E d \in Calls :
    /\ IsTimestamps(c) /\ Done(c) /\ spawns[c] = <<"ts">>
    /\ outcome[c].kind = "resolved" /\ outcome[c].value # <<>>
    /\ IsTimestamps(d) /\ Done(d) /\ spawns[d] = <<"ts", "vtt">>
    /\ outcome[d].kind = "resolved" /\ outcome[d].value # <<>>

\* The cache entry of a pair, by the language as the caller passed it.
OwnEntry(k) == k[1] \o <<"_">> \o k[2] \o <<".txt">>

\* C18: downloadSubtitle looks up and writes the cache under the language as
\* passed, not the normalized one: a call is served from the cache exactly
\* when the entry of its own pair exists, and a download writes its text to
\* that entry.  So a transcript cached for "c (auto)" is not returned for "c",
\* nor the other way round.
C18_OriginalLangKey ==
  [][\A c \in Calls : \A k \in keys :
       /\ Calling(c, k) =>
            /\ (pc'[c] = "done") <=> existsSync(files, OwnEntry(k))
            /\ pc'[c] = "done" => outcome'[c] = Resolved(files[OwnEntry(k)])
       /\ ( /\ IsDownload(c) /\ arg[c] = k /\ ResumingOk(c)
            /\ outcome'[c].kind = "resolved" ) =>
              /\ existsSync(files', OwnEntry(k))
              /\ files'[OwnEntry(k)] = outcome'[c].value]_vars

\* The transcripts of "c" and of "c (auto)" are both cached, with different
\* texts, each returned to the call for its own pair.
C18_Witness ==
  \E c \in Calls : \E d \in Calls :
    /\ IsDownload(c) /\ Done(c) /\ arg[c] = KeyU
    /\ IsDownload(d) /\ Done(d) /\ arg[d] = KeyQ
    /\ existsSync(files, OwnEntry(KeyU)) /\ existsSync(files, OwnEntry(KeyQ))
    /\ files[OwnEntry(KeyU)] # files[OwnEntry(KeyQ)]
    /\ outcome[c] = Resolved(files[OwnEntry(KeyU)])
    /\ outcome[d] = Resolved(files[OwnEntry(KeyQ)])

\* C19: when downloadSubtitle, getSubtitleWithTimestamps or its VTT fallback
\* returns a result taken from a candidate file, that file is gone when the
\* call returns, and for downloadSubtitle the cache entry holds exactly the
\* returned text.
C19_CleanedUp ==
  [][\A c \in Calls :
       ( /\ ResumingOk(c) /\ (IsDownload(c) \/ IsTimestamps(c))
         /\ pc'[c] = "done" /\ outcome'[c].kind = "resolved" /\ ~stepFailed'[c]
         /\ \E i \in {1, 2} : existsSync(files, Candidates(c)[i]) ) =>
           LET used == IF existsSync(files, Candidates(c)[1])
                       THEN Candidates(c)[1] ELSE Candidates(c)[2]
           IN /\ ~existsSync(files', used)
              /\ IsDownload(c) =>
                   /\ existsSync(files', OwnEntry(arg[c]))
                   /\ files'[OwnEntry(arg[c])] = outcome'[c].value]_vars

\* A download and a timestamps call that fell back to VTT both returned what
\* they read from a candidate file, and no candidate of either is left.
C19_Witness ==
  \E c \in Calls : \E d \in Calls :
    /\ IsDownload(c) /\ Done(c) /\ spawns[c] = <<"sub">>
    /\ outcome[c].kind = "resolved" /\ outcome[c].value # <<>>
    /\ IsTimestamps(d) /\ Done(d) /\ spawns[d] = <<"ts", "vtt">>
    /\ outcome[d].kind = "resolved" /\ outcome[d].value # <<>>
    /\ \A kind \in {"sub", "ts", "vtt"} : \A i \in {1, 2} :
         /\ ~existsSync(files, possibleFiles(arg[c][1], arg[c][2], kind)[i])
         /\ ~existsSync(files, possibleFiles(arg[d][1], arg[d][2], kind)[i])

\* C20: after a successful run downloadSubtitle probes the plain candidate
\* before the auto-suffixed one.  When the plain file exists it is the one
\* parsed, cached, returned and deleted, and an auto-suffixed file stays as it
\* is; the auto-suffixed file is used only when the plain one is absent.
C20_PlainFirst ==
  [][\A c \in Calls :
       (IsDownload(c) /\ ResumingOk(c)) =>
         LET plain == Candidates(c)[1]
             auto  == Candidates(c)[2]
             entry == OwnEntry(arg[c])
         IN /\ existsSync(files, plain) =>
                 /\ outcome'[c] = Resolved(parseVttToText(files[plain]))
                 /\ files'[entry] = parseVttToText(files[plain])
                 /\ ~existsSync(files', plain)
                 /\ existsSync(files, auto) =>
                      (existsSync(files', auto) /\ files'[auto] = files[auto])
            /\ (~existsSync(files, plain) /\ existsSync(files, auto)) =>
                 /\ outcome'[c] = Resolved(parseVttToText(files[auto]))
                 /\ files'[entry] = parseVttToText(files[auto])
                 /\ ~existsSync(files', auto)]_vars

\* A download returned the text of the plain file, and the auto-suffixed file
\* with its different text is still there.
C20_Witness ==
  \E c \in Calls :
    /\ IsDownload(c) /\ Done(c) /\ spawns[c] = <<"sub">>
    /\ outcome[c] = Resolved(parseVttToText(VttPayloads[1]))
    /\ ~existsSync(files, possibleFiles(arg[c][1], arg[c][2], "sub")[1])
    /\ existsSync(files, possibleFiles(arg[c][1], arg[c][2], "sub")[2])
    /\ parseVttToText(files[possibleFiles(arg[c][1], arg[c][2], "sub")[2]])
         # outcome[c].value

\* ------------------------------------------------------------ claims on the calls: retries

\* C21: no retries: a getVideoInfo call spawns exactly one subprocess, a
\* downloadSubtitle call at most one, a getSubtitleWithTimestamps call at most
\* two (the json3 run, then at most one VTT run), no two of them with the same
\* arguments; and a call whose subprocess failed spawns nothing further.
C21_NoRetries ==
  /\ [](\A c \in Calls :
          /\ IsInfo(c) => spawns[c] = <<"dump">>
          /\ IsDownload(c) => spawns[c] \in {<<>>, <<"sub">>}
          /\ IsTimestamps(c) => spawns[c] \in {<<"ts">>, <<"ts", "vtt">>}
          /\ \A i \in 1..Len(spawns[c]) : \A j \in 1..Len(spawns[c]) :
               i # j => spawnArgs(c, i) # spawnArgs(c, j))
  /\ [][\A c \in Calls :
          (proc[c].state = "error" \/ (proc[c].state = "closed" /\ proc[c].code # 0)) =>
            (spawns'[c] = spawns[c] /\ proc'[c].state # "running")]_vars

\* A metadata call ended on a failed subprocess, with that one spawn, and a
\* timestamps call ended after its two.
C21_Witness ==
  \E c \in Calls : \E d \in Calls :
    /\ IsInfo(c) /\ Done(c) /\ outcome[c].kind = "rejected" /\ spawns[c] = <<"dump">>
    /\ IsTimestamps(d) /\ Done(d) /\ spawns[d] = <<"ts", "vtt">>

\* ------------------------------------------------------------ claims on the VTT parsers, continued

\* The text of the entry of a block: its lines, tags removed, with one space
\* between them.
EntryText(text) ==
  CASE text = <<TextHi>>         -> <<"h", "i">>
    [] text = <<TextHi, TextHi>> -> <<"h", "i", " ", "h", "i">>
    [] text = <<TextHi, TextYo>> -> <<"h", "i", " ", "y", "o">>
    [] text = <<TextTagged>>     -> <<"h", "i">>

\* C22: parseVttToEntries returns exactly one entry per block of a time-range
\* line and one or more text lines, in file order, its text the block's lines
\* joined by single spaces.  The last block is returned also when no blank
\* line follows it, and blocks with the same text each get their entry.
C22_OnePerBlock ==
  result.fn = "entries" =>
    LET e == result.out
        B == WithText(input)
    IN /\ Len(e) = Len(B)
       /\ \A i \in 1..Len(e) : e[i].text = EntryText(B[i].text)

\* Two blocks with the same two-line text, the last one without a blank line
\* after it, gave two entries with the same text.
C22_Witness ==
  /\ result.fn = "entries" /\ Len(input) = 2
  /\ input[1].text = <<TextHi, TextYo>> /\ input[2].text = <<TextHi, TextYo>>
  /\ ~input[2].indexed
  /\ Len(result.out) = 2 /\ result.out[1].text = result.out[2].text

\* ------------------------------------------------------------ line classification on its own
\* What each of the two VTT parsers does with one payload line.

LineTokens == {"WEBVTT", " ", "-->", "1", "h", "Kind:", "00:00:01.000"}

\* The lines of at most n tokens.
RECURSIVE LinesUpTo(_)
LinesUpTo(n) ==
  {<<>>} \cup
  ( IF n = 0 THEN {}
    ELSE { <<t>> \o rest : t \in LineTokens, rest \in LinesUpTo(n - 1) } )

\* parseVttToText goes on to clean the line: it is not skipped.
textLineInText(line) == ~skippedInText(trim(line))

\* parseVttToEntries pushes the line onto currentText: it is no time range and
\* is not skipped.
textLineInEntries(line) ==
  timestampMatch(trim(line)) = <<>> /\ ~skippedInEntries(trim(line))

InitLines ==
  /\ Constructed
  /\ keys = {}
  /\ input \in LinesUpTo(MaxLineLen)
  /\ result = [fn |-> "none", inText |-> FALSE, inEntries |-> FALSE]

\* Both parsers meet the line.
Classify ==
  /\ result.fn = "none"
  /\ result' = [fn |-> "lines", inText |-> textLineInText(input),
                inEntries |-> textLineInEntries(input)]
  /\ UNCHANGED <<keys, files, op, arg, pc, proc, outcome, spawns, stepFailed, input>>

NextLines == Classify

SpecLines == InitLines /\ [][NextLines]_vars

\* C23: the two VTT parsers classify every line alike: a line is a text line
\* for parseVttToText exactly when it is one for parseVttToEntries.
C23_SameClassification ==
  result.fn = "lines" => (result.inText = result.inEntries)

\* ------------------------------------------------------------ claims on the json3 parse, continued

\* The trimmed concatenation of the segments of an event with text.
SpokenText(segs) ==
  CASE segs = << <<"h">>, <<"i", " ">> >> -> <<"h", "i">>
    [] segs = << <<" ">>, <<"y", "o">> >> -> <<"y", "o">>

\* C24: the json3 parse returns, in event order and without dropping repeats,
\* exactly one entry per event whose trimmed concatenated text is non-empty,
\* with start = tStartMs/1000 and end = (tStartMs + dDurationMs)/1000, an
\* absent field counting as 0 (times are kept in milliseconds); so no entry
\* ends before it starts.
C24_EventEntries ==
  result.fn = "json3" =>
    LET e == result.out
        E == Speaking(input.events)
    IN /\ Len(e) = Len(E)
       /\ \A i \in 1..Len(e) :
            /\ e[i].text = SpokenText(E[i].segs)
            /\ e[i].start = E[i].tStartMs
            /\ e[i].end = E[i].tStartMs + E[i].dDurationMs
            /\ e[i].end >= e[i].start

\* Two events with the same text, the second without a duration, gave two
\* entries.
C24_Witness ==
  /\ result.fn = "json3" /\ Len(input.events) = 2
  /\ input.events[1].segs = << <<"h">>, <<"i", " ">> >>
  /\ input.events[2].segs = input.events[1].segs
  /\ input.events[2].dDurationMs = 0 /\ input.events[2].tStartMs = 1000
  /\ Len(result.out) = 2 /\ result.out[2].end = 1000

\* ------------------------------------------------------------ downloads that produce their file

\* The yt-dlp process of call c runs to its end as in YtdlpClose, where a
\* subtitle download that closes with code 0 has written at least one of its
\* two files.
YtdlpProduce(c) ==
  /\ proc[c].state = "running"
  /\ \E code \in ExitCodes :
       IF procArgs(c).mode = "dump-json"
       THEN /\ \E out \in (IF code = 0 THEN DOMAIN DumpOutputs ELSE {0}) :
                 proc' = [proc EXCEPT ![c].state = "closed", ![c].code = code,
                                      ![c].stdout = out]
            /\ files' = files
       ELSE /\ proc' = [proc EXCEPT ![c].state = "closed", ![c].code = code]
            /\ \E W \in (IF code = 0 THEN (SUBSET {1, 2}) \ {{}} ELSE {{}}) :
                 files' = ytdlpWrite(files, ytdlpFiles(procArgs(c)), W,
                                     Payloads(procArgs(c).format))
  /\ UNCHANGED <<op, arg, pc, outcome, spawns, stepFailed>>
  /\ UNCHANGED <<keys, input, result>>

StepProduce(c) ==
  \/ YtdlpProduce(c)
  \/ YtdlpError(c)
  \/ downloadSubtitleResume(c)
  \/ getSubtitleWithTimestampsResume(c)
  \/ getSubtitleFromVttResume(c)
  \/ getVideoInfoResume(c)

NextProduce == \E c \in Calls : Call(c) \/ StepProduce(c)

\* Overlapping calls where every successful subtitle download produces a file.
SpecProduce == Init /\ [][NextProduce]_vars

\* C25: of two overlapping downloadSubtitle calls for the same pair that both
\* missed the cache and whose downloads both produced a subtitle file, none
\* fails with "Subtitle file not found after download" while the other
\* returned the transcript.
C25_BothReturn ==
  \A c, d \in Calls :
    /\ c # d /\ arg[c] = arg[d]
    /\ op[c] = "downloadSubtitle" /\ op[d] = "downloadSubtitle"
    /\ spawns[c] = <<"sub">> /\ spawns[d] = <<"sub">>
    /\ Done(c) /\ Done(d) /\ outcome[c].kind = "resolved"
    => outcome[d] # Rejected(SubtitleNotFound)

\* ------------------------------------------------------------ claims on the cache under overlap

\* No two of the pairs in use share a cache file name.
DistinctEntries == \A k1, k2 \in keys : OwnEntry(k1) = OwnEntry(k2) => k1 = k2

\* C26: cache entries are write-once: no step of any call, overlapping
\* downloads of one pair that both missed the cache included, changes the
\* stored text of a cache entry that exists (stated for pairs with distinct
\* cache file names).
C26_WriteOnce ==
  [][ DistinctEntries =>
        \A path \in DOMAIN CacheEntries(files) :
          existsSync(files', path) => files'[path] = files[path] ]_vars

\* The path p begins with the tokens of pre.
HasPrefix(p, pre) == Len(p) >= Len(pre) /\ SubSeq(p, 1, Len(pre)) = pre

\* The paths whose presence or content a step changes.
Changed ==
  { p \in DOMAIN files \cup DOMAIN files' :
      \/ ~existsSync(files, p) \/ ~existsSync(files', p)
      \/ files[p] # files'[p] }

\* The step is one of call c or of its subprocess.
Acts(c) == pc'[c] # pc[c] \/ proc'[c] # proc[c]

\* The files of the pair k that belong to downloadSubtitle: the cache entry
\* and the downloads into the plain template.
DownloadPath(k, p) ==
  p = OwnEntry(k) \/ HasPrefix(p, k[1] \o <<"_">> \o k[2] \o <<".">>)

\* The files of the pair k that belong to getSubtitleWithTimestamps: the
\* downloads into the _ts and _vtt templates.
TimestampsPath(k, p) ==
  \/ HasPrefix(p, k[1] \o <<"_">> \o k[2] \o <<"_", "ts", ".">>)
  \/ HasPrefix(p, k[1] \o <<"_">> \o k[2] \o <<"_", "vtt", ".">>)

\* C27: a getSubtitleWithTimestamps call and a downloadSubtitle call that
\* overlap on one pair work on distinct scratch paths: every file a step of
\* the one call or of its subprocess creates, changes or deletes is a file of
\* its own templates and none of the other call's, so each call finds the
\* files its own downloads left, as when it runs alone.
C27_DistinctScratch ==
  [][ \A c, d \in Calls :
        /\ IsTimestamps(c) /\ IsDownload(d) /\ arg[c] = arg[d]
        => /\ Acts(c) => \A p \in Changed :
                           TimestampsPath(arg[c], p) /\ ~DownloadPath(arg[c], p)
           /\ Acts(d) => \A p \in Changed :
                           DownloadPath(arg[d], p) /\ ~TimestampsPath(arg[d], p) ]_vars

\* Both calls are suspended on one pair, the first on its VTT fallback, and
\* each has a downloaded file waiting.
C27_Witness ==
  \E c, d \in Calls :
    /\ IsTimestamps(c) /\ IsDownload(d) /\ arg[c] = arg[d]
    /\ pc[c] = "awaitVtt" /\ proc[c].state = "closed" /\ proc[c].code = 0
    /\ pc[d] = "awaitExec" /\ proc[d].state = "closed" /\ proc[d].code = 0
    /\ \E p \in DOMAIN files : TimestampsPath(arg[c], p)
    /\ \E p \in DOMAIN files : DownloadPath(arg[d], p) /\ p # OwnEntry(arg[d])

\* A subtitle download file: a .vtt or a .json3 file.
ScratchFile(p) == p[Len(p)] \in {"vtt", "json3"}

\* C28: no scratch file is left behind: whenever no call is in progress, the
\* cache directory holds no subtitle download file (.vtt or .json3), on every
\* exit path of downloadSubtitle and getSubtitleWithTimestamps.
C28_NoScratchLeft ==
  Quiet => \A p \in DOMAIN files : ~ScratchFile(p)

\* The call c was a downloadSubtitle answered from the cache: it returned
\* without a subprocess.
ServedFromCache(c) ==
  IsDownload(c) /\ Done(c) /\ spawns[c] = <<>> /\ outcome[c].kind = "resolved"

\* C29: the cache file name `${videoId}_${lang}.txt` is injective in the pair,
\* underscores in videoId or lang included, so a downloadSubtitle call never
\* returns text cached for a different pair: a call answered from the cache
\* returns what a download for its own pair stored.
C29_OwnTextOnly ==
  \A c \in Calls :
    ServedFromCache(c) =>
      \E d \in Calls :
        /\ d # c /\ IsDownload(d) /\ arg[d] = arg[c] /\ spawns[d] = <<"sub">>
        /\ Done(d) /\ outcome[d].kind = "resolved"

\* ------------------------------------------------------------ the undo store

\* The store keeps the actions as they were pushed.  The model keeps of an
\* action its label; the id (`action-${++actionCounter}`) and the timestamp
\* are never read by the store.  The store's state is held in result:
\* undoStack, redoStack, toastAction, toastVisible, isProcessing, and with
\* them pending, the callback an undo() or redo() call is awaiting, and last,
\* the operation invoked last and whether it met a full undo stack.

\* slice(-49): the actions pushAction keeps below the new one.
KeptOnPush == 49

Labels == {"edit"}

\* toastAction: null, or an action with its label.
NoToast == <<>>
UndoneLabel(label) == <<"undone: ", label>>
RedoneLabel(label) == <<"redone: ", label>>

\* stack.slice(-n)
sliceLast(stack, n) ==
  IF Len(stack) <= n THEN stack ELSE SubSeq(stack, Len(stack) - n + 1, Len(stack))

\* stack.slice(0, -1)
sliceButLast(stack) == SubSeq(stack, 1, Len(stack) - 1)

\* A rival of pushed that keeps every action.
pushedUncapped(stack, action) == Append(stack, action)

\* [...state.undoStack.slice(-49), fullAction]
pushed(stack, action) == Append(sliceLast(stack, KeptOnPush), action)

Invoked(name) == [op |-> name, onFull |-> Len(result.undoStack) > KeptOnPush]

InitUndo ==
  /\ Constructed
  /\ keys = {}
  /\ input = <<>>
  /\ result = [ undoStack |-> <<>>, redoStack |-> <<>>, toastAction |-> NoToast,
                toastVisible |-> FALSE, isProcessing |-> FALSE,
                pending |-> "none", last |-> [op |-> "none", onFull |-> FALSE] ]

\* pushAction(action)
PushAction(label) ==
  /\ result' = [result EXCEPT !.undoStack = pushed(@, label),
                              !.redoStack = <<>>,
                              !.toastAction = <<label>>,
                              !.toastVisible = TRUE,
                              !.last = Invoked("pushAction")]
  /\ UNCHANGED <<keys, files, op, arg, pc, proc, outcome, spawns, stepFailed, input>>

\* undo() up to its await of action.undo(), or to its early return.
Undo ==
  /\ IF result.undoStack = <<>> \/ result.isProcessing
     THEN result' = [result EXCEPT !.last = Invoked("undo")]
     ELSE LET action == result.undoStack[Len(result.undoStack)]
          IN result' = [result EXCEPT !.isProcessing = TRUE,
                                      !.undoStack = sliceButLast(@),
                                      !.redoStack = Append(@, action),
                                      !.toastAction = UndoneLabel(action),
                                      !.toastVisible = TRUE,
                                      !.pending = "undo",
                                      !.last = Invoked("undo")]
  /\ UNCHANGED <<keys, files, op, arg, pc, proc, outcome, spawns, stepFailed, input>>

\* undo() after the await: action.undo() resolved or rejected, and the finally
\* block ran.
UndoSettle ==
  /\ result.pending = "undo"
  /\ result' = [result EXCEPT !.isProcessing = FALSE, !.pending = "none",
                              !.last = Invoked("settle")]
  /\ UNCHANGED <<keys, files, op, arg, pc, proc, outcome, spawns, stepFailed, input>>

\* redo() up to its await of action.redo(), or to its early return.
Redo ==
  /\ IF result.redoStack = <<>> \/ result.isProcessing
     THEN result' = [result EXCEPT !.last = Invoked("redo")]
     ELSE LET action == result.redoStack[Len(result.redoStack)]
          IN result' = [result EXCEPT !.isProcessing = TRUE,
                                      !.redoStack = sliceButLast(@),
                                      !.undoStack = Append(@, action),
                                      !.toastAction = RedoneLabel(action),
                                      !.toastVisible = TRUE,
                                      !.pending = "redo",
                                      !.last = Invoked("redo")]
  /\ UNCHANGED <<keys, files, op, arg, pc, proc, outcome, spawns, stepFailed, input>>

\* redo() after the await, through its finally block.
RedoSettle ==
  /\ result.pending = "redo"
  /\ result' = [result EXCEPT !.isProcessing = FALSE, !.pending = "none",
                              !.last = Invoked("settle")]
  /\ UNCHANGED <<keys, files, op, arg, pc, proc, outcome, spawns, stepFailed, input>>

\* dismissToast()
DismissToast ==
  /\ result' = [result EXCEPT !.toastVisible = FALSE,
                              !.last = Invoked("dismissToast")]
  /\ UNCHANGED <<keys, files, op, arg, pc, proc, outcome, spawns, stepFailed, input>>

NextUndo ==
  \/ \E label \in Labels : PushAction(label)
  \/ Undo
  \/ UndoSettle
  \/ Redo
  \/ RedoSettle
  \/ DismissToast

\* The components call the store whenever the user acts: a pushAction, undo or
\* redo may arrive while a callback is pending.
SpecUndo == InitUndo /\ [][NextUndo]_vars

\* The store but for the record of the last operation.
Store(r) == [r EXCEPT !.last = [op |-> "none", onFull |-> FALSE]]

\* C30: in the undo store, after any sequence and interleaving of pushAction,
\* undo and redo, a pushAction arriving while a callback is pending included,
\* the undo stack holds at most 50 actions and the two stacks together at
\* most 50; pushAction empties the redo stack; and an undo or redo invoked
\* while another is being processed changes nothing.
C30_UndoBounded ==
  /\ [](/\ Len(result.undoStack) <= 50
        /\ Len(result.undoStack) + Len(result.redoStack) <= 50)
  /\ [][ /\ result'.last.op = "pushAction" => result'.redoStack = <<>>
         /\ result.isProcessing /\ result'.last.op \in {"undo", "redo"}
              => Store(result') = Store(result) ]_vars

\* A pushAction met a full undo stack while a redo callback was pending.
C30_Witness ==
  /\ result.last = [op |-> "pushAction", onFull |-> TRUE]
  /\ result.isProcessing /\ result.pending = "redo"
  /\ Len(result.undoStack) = 50 /\ result.redoStack = <<>>

=============================================================================
